---- MODULE Spec2Model ----
(***************************************************************************)
(* Model of src/src/App.jsx: the maturity survey single-page application.  *)
(*                                                                         *)
(*  - the App component: the row list `data`, the maturity headers, the    *)
(*    error banner, the paste drawer, and the handlers that edit them;     *)
(*  - calculateHierarchyScores: the tree builder and score rollup;         *)
(*  - the SunburstChart effect: its own tree builder, the d3 hierarchy,    *)
(*    absolute weights, sum / sort / partition, and the click handler      *)
(*    with its zoom transition.                                            *)
(*                                                                         *)
(* Numbers are exact rationals <<n, d>> (d > 0, lowest terms); the JS      *)
(* value `undefined` is Undef and NaN is NaN.  A CID string "1.2.3" is     *)
(* the sequence of its dot-separated segments <<1, 2, 3>>; "" is << >>.    *)
(* Object references held in `children` arrays are positions in the row    *)
(* array `data`, which is stable between two rebuilds (addRow appends,     *)
(* field edits do not reorder).                                            *)
(***************************************************************************)
EXTENDS Integers, Sequences, FiniteSets, TLC

\* ------------------------------------------------------------ bounds
MaxRows == 3
MaxEdits == 3
MaxOpts == 3
MaxClicks == 2
Frames == 2

\* ------------------------------------------------------------ program constants
Radius == 100
Inset == 20

\* ------------------------------------------------------------ numbers
RECURSIVE GCD(_, _)
GCD(a, b) == IF b = 0 THEN a ELSE GCD(b, a % b)

Abs(n) == IF n < 0 THEN -n ELSE n

Rat(n, d) ==
    LET g == GCD(Abs(n), d) IN <<n \div g, d \div g>>

Undef == <<0, 0>>
NaN == <<1, 0>>
Zero == <<0, 1>>
One == <<1, 1>>
Half == <<1, 2>>

IsNum(v) == v[2] # 0
RAdd(a, b) == Rat(a[1] * b[2] + b[1] * a[2], a[2] * b[2])
RSub(a, b) == Rat(a[1] * b[2] - b[1] * a[2], a[2] * b[2])
RMul(a, b) == Rat(a[1] * b[1], a[2] * b[2])
RDiv(a, b) == Rat(a[1] * b[2], a[2] * b[1])
RLess(a, b) == a[1] * b[2] < b[1] * a[2]
RLeq(a, b) == a[1] * b[2] <= b[1] * a[2]

SeqMax(S) == CHOOSE m \in S : \A x \in S : x <= m

Indices(s) == 1..Len(s)

\* ------------------------------------------------------------ helpers of App.jsx

\* String(value).replace('%', '').trim() on the texts the model types or imports
StripPercent(text) ==
    CASE text = "50%" -> "50"
      [] text = "100%" -> "100"
      [] text = "1%" -> "1"
      [] text = " " -> ""
      [] OTHER -> text

\* parseFloat on the stripped texts
ParseFloat(s) ==
    CASE s = "50" -> <<50, 1>>
      [] s = "100" -> <<100, 1>>
      [] s = "1" -> One
      [] s = "0" -> Zero
      [] s = "0.5" -> Half
      [] OTHER -> NaN

\* parsePercentage; HasText is the typeof guard (a missing cell is undefined)
parsePercentage(HasText, value) ==
    IF ~HasText THEN Zero
    ELSE LET sValue == StripPercent(value) IN
         IF sValue = "" THEN Zero
         ELSE LET num == ParseFloat(sValue) IN
              IF ~IsNum(num) THEN Zero
              ELSE IF RLess(One, num) THEN RDiv(num, <<100, 1>>) ELSE num

\* String(m).trim().toLowerCase() on the option texts of the model
TrimLower(m) ==
    CASE m = " " -> ""
      [] m = "No" -> "no"
      [] m = " NO " -> "no"
      [] OTHER -> m

\* cid.lastIndexOf('.') > -1
HasDot(cid) == Len(cid) > 1

\* cid.substring(0, lastDotIndex)
ParentCid(cid) == SubSeq(cid, 1, Len(cid) - 1)

\* String(a.CID).localeCompare(String(b.CID), undefined, {numeric: true}):
\* segment by segment, numerically; a proper prefix sorts first.
RECURSIVE CidCompare(_, _)
CidCompare(a, b) ==
    IF a = <<>> THEN (IF b = <<>> THEN 0 ELSE -1)
    ELSE IF b = <<>> THEN 1
    ELSE IF Head(a) < Head(b) THEN -1
    ELSE IF Head(a) > Head(b) THEN 1
    ELSE CidCompare(Tail(a), Tail(b))

naturalSort(a, b) == CidCompare(a.CID, b.CID)

\* ------------------------------------------------------------ calculateHierarchyScores

\* nodeMap[cid] after the forEach of line 269: the last row with that CID (0: none)
NodeMap(flat, cid) ==
    LET S == {i \in Indices(flat) : flat[i].CID = cid}
    IN IF S = {} THEN 0 ELSE SeqMax(S)

\* the list row i is pushed to (lines 271-283): its parent's position, 0 for rootChildren
ParentOf(flat, i) ==
    IF HasDot(flat[i].CID) THEN NodeMap(flat, ParentCid(flat[i].CID)) ELSE 0

\* the children array of row p (rootChildren for p = 0), in push order
LinkChildren(flat, p) ==
    SelectSeq([i \in Indices(flat) |-> i], LAMBDA i : ParentOf(flat, i) = p)

\* line 296: childScore !== undefined && childScore !== null && !isNaN(childScore)
Scorable(childScore) == IsNum(childScore)

\* a rollup that leaves the score absent when no weight was accumulated
NodeScoreOrAbsent(weightedSum, weightTotal) ==
    IF weightTotal = Zero THEN Undef ELSE weightedSum

\* line 301: node.Score = weightedSum  (weightTotal is accumulated and not used)
NodeScore(weightedSum, weightTotal) == weightedSum

RECURSIVE calculateScore(_, _)
RECURSIVE SumChildren(_, _, _, _)
\* the forEach of lines 293-300 over the children ch, from accumulators ws, wt
SumChildren(flat, ch, ws, wt) ==
    IF ch = <<>> THEN NodeScore(ws, wt)
    ELSE LET child == Head(ch)
             childScore == calculateScore(flat, child)
             childWeight == flat[child].W
         IN IF Scorable(childScore)
            THEN SumChildren(flat, Tail(ch), RAdd(ws, RMul(childScore, childWeight)),
                             RAdd(wt, childWeight))
            ELSE SumChildren(flat, Tail(ch), ws, wt)

calculateScore(flat, i) ==
    LET ch == LinkChildren(flat, i) IN
    IF ch = <<>> THEN flat[i].Score ELSE SumChildren(flat, ch, Zero, Zero)

\* position of row i after the stable sort of line 306
SortPos(flat, i) ==
    1 + Cardinality({j \in Indices(flat) :
            \/ naturalSort(flat[j], flat[i]) < 0
            \/ naturalSort(flat[j], flat[i]) = 0 /\ j < i})

SortInv(flat, k) == CHOOSE i \in Indices(flat) : SortPos(flat, i) = k

calculateHierarchyScores(flat) ==
    LET processed == [i \in Indices(flat) |->
            [flat[i] EXCEPT !.children = LinkChildren(flat, i),
                            !.Score = calculateScore(flat, i)]]
    IN [k \in Indices(flat) |->
            LET i == SortInv(flat, k) IN
            [processed[i] EXCEPT !.children =
                [c \in Indices(processed[i].children) |->
                    SortPos(flat, processed[i].children[c])]]]

\* ------------------------------------------------------------ state
VARIABLES
    data,             \* useState data: the row list (line 255)
    maturityHeaders,  \* useState maturityHeaders (line 256)
    pasteModalOpen,   \* useState pasteModalOpen (line 257)
    pasteText,        \* useState pasteText (line 258)
    errorMsg,         \* useState errorMsg (line 259)
    lastOp,           \* history: the handler that ran last and what it was given
    edits,            \* history: number of handler runs so far (bounded by MaxEdits)
    layout,           \* root = partition(hierarchy) (line 123): path -> node; << >> before the effect
    focus,            \* the `target` of the latest click (line 200); << >> is root
    schedules,        \* the transitions d3 holds on the svg element (line 202)
    xDomain,          \* x.domain() (lines 106, 208)
    yDomain,          \* y.domain() (lines 107, 209)
    yRange,           \* y.range() (lines 107, 209)
    nextId,           \* d3's transition id counter
    clicks,           \* history: number of clicks so far (bounded by MaxClicks)
    lastClick,        \* history: the latest click, its node and the focus before it
    rOpts,            \* a row's maturities, input of the resolver (line 357)
    rIdx,             \* the clicked maturityIndex (line 349)
    rOut              \* newScore (line 375)

appVars == <<data, maturityHeaders, pasteModalOpen, pasteText, errorMsg, lastOp, edits>>
chartVars == <<layout, focus, schedules, xDomain, yDomain, yRange, nextId, clicks, lastClick>>
resolveVars == <<rOpts, rIdx, rOut>>
vars == <<appVars, chartVars, resolveVars>>

\* ------------------------------------------------------------ rows and imports

Row(cid, crit, w, score, mats) ==
    [CID |-> cid, Criterion |-> crit, W |-> w, Score |-> score,
     maturities |-> mats, sel |-> -1, children |-> <<>>]

\* c.toLowerCase().trim() on the column names of the model's tables
HeaderLower(c) ==
    CASE c = "CID" -> "cid"
      [] c = "ID" -> "id"
      [] c = "Criterion" -> "criterion"
      [] c = "Name" -> "name"
      [] c = "Weight" -> "weight"
      [] c = "Weights" -> "weights"
      [] c = "Score" -> "score"
      [] c = "Current Score" -> "current score"
      [] OTHER -> c

\* columns.find(c => terms.some(t => ...)) || columns[k]: a column position, 0 for undefined
findCol(columns, terms, k) ==
    LET hit == {i \in Indices(columns) : HeaderLower(columns[i]) \in terms}
    IN IF hit # {} THEN CHOOSE i \in hit : \A j \in hit : i <= j
       ELSE IF k <= Len(columns) THEN k ELSE 0

cidCol(columns) == findCol(columns, {"cid", "id"}, 1)
critCol(columns) == findCol(columns, {"criterion", "criteria", "name"}, 2)
weightCol(columns) == findCol(columns, {"calculated weights", "weights", "weight"}, 3)
scoreCol(columns) == findCol(columns, {"score", "current score"}, 4)

standardCols(columns) ==
    {cidCol(columns), critCol(columns), weightCol(columns), scoreCol(columns)}

\* columns.filter(c => !standardCols.includes(c)), as column positions
detectedMaturityCols(columns) ==
    SelectSeq([i \in Indices(columns) |-> i], LAMBDA i : i \notin standardCols(columns))

detectedMaturityHeaders(columns) ==
    [k \in Indices(detectedMaturityCols(columns)) |->
        columns[detectedMaturityCols(columns)[k]]]

\* lines 327-339: one parsed line d to a row
formatRow(columns, d) ==
    LET mc == detectedMaturityCols(columns) IN
    Row(IF cidCol(columns) = 0 THEN <<>> ELSE d[cidCol(columns)],
        IF critCol(columns) = 0 THEN "" ELSE d[critCol(columns)],
        IF weightCol(columns) = 0 THEN parsePercentage(FALSE, "")
        ELSE parsePercentage(TRUE, d[weightCol(columns)]),
        IF scoreCol(columns) = 0 THEN parsePercentage(FALSE, "")
        ELSE parsePercentage(TRUE, d[scoreCol(columns)]),
        [k \in Indices(mc) |-> d[mc[k]]])

\* processRawData, lines 309-342: the row list it hands to setData
processRawData(parsed) ==
    calculateHierarchyScores(
        [r \in Indices(parsed.rows) |-> formatRow(parsed.columns, parsed.rows[r])])

StdColumns == <<"CID", "Criterion", "Weight", "Score", "L1", "L2">>
AltColumns == <<"L1", "Name", "ID", "Current Score", "Weights">>

Table(columns, rows) == [columns |-> columns, rows |-> rows]

\* the parsed tables the model imports (d3.csvParse / d3.tsvParse results)
Tables ==
    {Table(StdColumns,
        << <<(<<1>>), "c", "100%", "", "", "">>,
           <<(<<1, 1>>), "c", "50%", s1, "A", "B">>,
           <<(<<1, 2>>), "c", w2, "", "A", "No">> >>)
        : <<s1, w2>> \in {<<"", "50%">>, <<"100%", "100%">>}}
    \cup
    {Table(AltColumns,
        << <<"A", "c", (<<2>>), "0.5", "1">>,
           <<"A", "c", (<<1>>), "abc", "0.5">>,
           <<" ", "c", (<<3, 1>>), "1%", "">> >>),
     Table(StdColumns,
        << <<(<<1>>), "c", "100%", "", "", "">>,
           <<(<<1, 1>>), "c", "50%", "", "", "">>,
           <<(<<1, 1, 1>>), "c", "50%", "50%", "A", "B">> >>),
     Table(StdColumns,
        << <<(<<1>>), "c", "50%", "", "A", "">>,
           <<(<<1>>), "d", "50%", "", "A", "B">>,
           <<(<<1, 1>>), "c", "100%", "100%", "A", "B">> >>),
     Table(<<"foo", "bar">>, << <<(<<1>>), "y">> >>),
     Table(StdColumns, << >>)}

\* pasted texts: the text whose lines spell the table with that delimiter;
\* the empty text and a single word parse to fewer than two columns
PasteTexts ==
    {[tab |-> FALSE, parsed |-> Table(<< >>, << >>)],
     [tab |-> FALSE, parsed |-> Table(<<"hello">>, << >>)],
     [tab |-> TRUE, parsed |-> Table(<<"foo", "bar">>, << <<(<<1>>), "y">> >>)],
     [tab |-> FALSE, parsed |-> Table(StdColumns,
        << <<(<<2>>), "c", "50%", "", "A", "B">>,
           <<(<<1>>), "c", "0", "100%", "No", "B">> >>)]}

NoText == [tab |-> FALSE, parsed |-> Table(<< >>, << >>)]

\* the files loadJson reads: what JSON.parse makes of them
JsonRows ==
    << [Row(<<1, 1>>, "c", Half, Undef, <<"A", "B">>) EXCEPT !.sel = 0],
       Row(<<1>>, "c", One, Half, <<"A">>) >>

JsonFiles ==
    {[kind |-> "malformed", headers |-> << >>, rows |-> << >>],
     [kind |-> "other", headers |-> << >>, rows |-> << >>],
     [kind |-> "array", headers |-> << >>, rows |-> JsonRows],
     [kind |-> "wrapped", headers |-> <<"L1", "L2">>, rows |-> JsonRows],
     [kind |-> "wrappedNoList", headers |-> <<"L1">>, rows |-> << >>]}

\* texts typed into the weight cell, CIDs and names typed into their cells
WeightTexts == {"50%", "abc"}
CidTexts == {<<2>>, <<1, 1>>}
NameTexts == {"n"}

ErrParse == "Failed to parse data. Check format."
ErrJson == "Error parsing JSON file"

\* ------------------------------------------------------------ MaturityRankResolver

\* lines 360-363, 370: txt !== 'no' && txt !== ''
IsValueOption(m) == TrimLower(m) # "no" /\ TrimLower(m) # ""

\* lines 360-363
valueOptionCount(currentMaturities) ==
    Cardinality({i \in Indices(currentMaturities) : IsValueOption(currentMaturities[i])})

\* a loop that stops one short: i < maturityIndex
RankUpToExclusive(maturityIndex) == maturityIndex

\* the upper end of the loop of line 367: i <= maturityIndex (0-based)
RankUpTo(maturityIndex) == maturityIndex + 1

\* lines 366-373
rank(currentMaturities, maturityIndex) ==
    Cardinality({i \in 1..RankUpTo(maturityIndex) : IsValueOption(currentMaturities[i])})

\* lines 353-376: newScore for a click on maturityIndex (0-based) showing maturityText
newScore(currentMaturities, maturityIndex, maturityText) ==
    IF TrimLower(maturityText) = "no" THEN Zero
    ELSE IF valueOptionCount(currentMaturities) > 0
         THEN Rat(rank(currentMaturities, maturityIndex), valueOptionCount(currentMaturities))
         ELSE Zero

\* ------------------------------------------------------------ App handlers

Op(op, row, idx, was, res) ==
    [op |-> op, row |-> row, idx |-> idx, was |-> was, res |-> res]

\* line 569
isParent(row) == row.children # <<>>

\* lines 601-602, 609: the cell of row rowIndex under header mIndex renders a button
HasButton(rowIndex, mIndex) ==
    /\ rowIndex \in Indices(data)
    /\ mIndex \in 0..(Len(maturityHeaders) - 1)
    /\ mIndex + 1 <= Len(data[rowIndex].maturities)
    /\ data[rowIndex].maturities[mIndex + 1] # ""
    /\ ~isParent(data[rowIndex])

\* lines 378-384
toggled(row, maturityIndex, score) ==
    IF row.sel = maturityIndex
    THEN [row EXCEPT !.sel = -1, !.Score = Undef]
    ELSE [row EXCEPT !.sel = maturityIndex, !.Score = score]

\* lines 349-388
handleMaturityClick(rowIndex, maturityIndex) ==
    /\ edits < MaxEdits
    /\ HasButton(rowIndex, maturityIndex)
    /\ LET row == data[rowIndex]
           score == newScore(row.maturities, maturityIndex,
                             row.maturities[maturityIndex + 1])
           newData == [data EXCEPT ![rowIndex] = toggled(row, maturityIndex, score)]
       IN /\ data' = calculateHierarchyScores(newData)
          /\ lastOp' = Op("maturity", SortPos(newData, rowIndex), maturityIndex,
                          row.sel, score)
    /\ edits' = edits + 1
    /\ UNCHANGED <<maturityHeaders, pasteModalOpen, pasteText, errorMsg>>

\* lines 390-395: the weight cell
handleWeightChange(rowIndex, value) ==
    /\ edits < MaxEdits
    /\ rowIndex \in Indices(data)
    /\ LET newData == [data EXCEPT ![rowIndex].W = parsePercentage(TRUE, value)]
       IN /\ data' = calculateHierarchyScores(newData)
          /\ lastOp' = Op("weight", SortPos(newData, rowIndex), -1, -1, Undef)
    /\ edits' = edits + 1
    /\ UNCHANGED <<maturityHeaders, pasteModalOpen, pasteText, errorMsg>>

\* lines 396-399: the CID cell
handleCidChange(rowIndex, value) ==
    /\ edits < MaxEdits
    /\ rowIndex \in Indices(data)
    /\ data' = [data EXCEPT ![rowIndex].CID = value]
    /\ lastOp' = Op("cid", rowIndex, -1, -1, Undef)
    /\ edits' = edits + 1
    /\ UNCHANGED <<maturityHeaders, pasteModalOpen, pasteText, errorMsg>>

\* lines 396-399: the Criterion cell
handleCriterionChange(rowIndex, value) ==
    /\ edits < MaxEdits
    /\ rowIndex \in Indices(data)
    /\ data' = [data EXCEPT ![rowIndex].Criterion = value]
    /\ lastOp' = Op("criterion", rowIndex, -1, -1, Undef)
    /\ edits' = edits + 1
    /\ UNCHANGED <<maturityHeaders, pasteModalOpen, pasteText, errorMsg>>

\* an addRow whose new row carries no Score
addRowUnscored ==
    /\ edits < MaxEdits
    /\ Len(data) < MaxRows
    /\ data' = Append(data, Row(<<>>, "", Zero, Undef,
                                [i \in Indices(maturityHeaders) |-> ""]))
    /\ lastOp' = Op("add", Len(data) + 1, -1, -1, Undef)
    /\ edits' = edits + 1
    /\ UNCHANGED <<maturityHeaders, pasteModalOpen, pasteText, errorMsg>>

\* lines 402-411
addRow ==
    /\ edits < MaxEdits
    /\ Len(data) < MaxRows
    /\ data' = Append(data, Row(<<>>, "", Zero, Zero,
                                [i \in Indices(maturityHeaders) |-> ""]))
    /\ lastOp' = Op("add", Len(data) + 1, -1, -1, Undef)
    /\ edits' = edits + 1
    /\ UNCHANGED <<maturityHeaders, pasteModalOpen, pasteText, errorMsg>>

\* data.filter((_, i) => i !== index)
without(s, index) ==
    [k \in 1..(Len(s) - 1) |-> IF k < index THEN s[k] ELSE s[k + 1]]

\* lines 413-417
deleteRow(index) ==
    /\ edits < MaxEdits
    /\ index \in Indices(data)
    /\ data' = calculateHierarchyScores(without(data, index))
    /\ lastOp' = Op("delete", index, -1, -1, Undef)
    /\ edits' = edits + 1
    /\ UNCHANGED <<maturityHeaders, pasteModalOpen, pasteText, errorMsg>>

\* line 516: the Paste CSV button
togglePasteModal ==
    /\ edits < MaxEdits
    /\ pasteModalOpen' = ~pasteModalOpen
    /\ lastOp' = Op("drawer", 0, -1, -1, Undef)
    /\ edits' = edits + 1
    /\ UNCHANGED <<data, maturityHeaders, pasteText, errorMsg>>

\* line 535: Cancel in the drawer
cancelPaste ==
    /\ edits < MaxEdits
    /\ pasteModalOpen
    /\ pasteModalOpen' = FALSE
    /\ lastOp' = Op("drawer", 0, -1, -1, Undef)
    /\ edits' = edits + 1
    /\ UNCHANGED <<data, maturityHeaders, pasteText, errorMsg>>

\* line 532: typing into the drawer's textarea
setPasteText(text) ==
    /\ edits < MaxEdits
    /\ pasteModalOpen
    /\ pasteText' = text
    /\ lastOp' = Op("drawer", 0, -1, -1, Undef)
    /\ edits' = edits + 1
    /\ UNCHANGED <<data, maturityHeaders, pasteModalOpen, errorMsg>>

\* lines 422-426: d3.tsvParse when the text holds a tab, else d3.csvParse
d3Parse(text) == text.parsed

\* lines 419-436, with processRawData (lines 309-342) inlined
handlePaste ==
    /\ edits < MaxEdits
    /\ pasteModalOpen
    /\ LET parsed == d3Parse(pasteText) IN
       IF Len(parsed.columns) < 2
       THEN /\ errorMsg' = ErrParse
            /\ lastOp' = Op("pasteFailed", 0, -1, -1, Undef)
            /\ UNCHANGED <<data, maturityHeaders, pasteModalOpen, pasteText>>
       ELSE /\ maturityHeaders' = detectedMaturityHeaders(parsed.columns)
            /\ data' = processRawData(parsed)
            /\ pasteModalOpen' = FALSE
            /\ pasteText' = NoText
            /\ errorMsg' = ""
            /\ lastOp' = Op("paste", 0, -1, -1, Undef)
    /\ edits' = edits + 1

\* line 462: the longest maturities array
maxLen(loadedData) ==
    IF loadedData = <<>> THEN 0
    ELSE SeqMax({Len(loadedData[i].maturities) : i \in Indices(loadedData)})

\* line 463
inferredHeaders(loadedData) ==
    [i \in 1..maxLen(loadedData) |-> "Maturity " \o ToString(i)]

\* lines 456-475: reader.onload for a chosen file
loadJson(file) ==
    /\ edits < MaxEdits
    /\ edits' = edits + 1
    /\ UNCHANGED <<pasteModalOpen, pasteText>>
    /\ CASE file.kind = "malformed" ->
              /\ errorMsg' = ErrJson
              /\ lastOp' = Op("loadFailed", 0, -1, -1, Undef)
              /\ UNCHANGED <<data, maturityHeaders>>
         [] file.kind = "array" ->
              /\ maturityHeaders' = inferredHeaders(file.rows)
              /\ data' = calculateHierarchyScores(file.rows)
              /\ lastOp' = Op("load", 0, -1, -1, Undef)
              /\ UNCHANGED errorMsg
         [] file.kind = "wrapped" ->
              /\ maturityHeaders' = file.headers
              /\ data' = calculateHierarchyScores(file.rows)
              /\ lastOp' = Op("load", 0, -1, -1, Undef)
              /\ UNCHANGED errorMsg
         [] file.kind = "wrappedNoList" ->
              /\ maturityHeaders' = file.headers
              /\ errorMsg' = ErrJson
              /\ lastOp' = Op("loadFailed", 0, -1, -1, Undef)
              /\ UNCHANGED data
         [] file.kind = "other" ->
              /\ data' = calculateHierarchyScores(<< >>)
              /\ lastOp' = Op("loadOther", 0, -1, -1, Undef)
              /\ UNCHANGED <<maturityHeaders, errorMsg>>

\* ------------------------------------------------------------ specification of the App

ChartIdle ==
    /\ layout = << >>
    /\ focus = << >>
    /\ schedules = {}
    /\ xDomain = <<Zero, One>>
    /\ yDomain = <<Zero, One>>
    /\ yRange = <<Zero, <<Radius, 1>>>>
    /\ nextId = 1
    /\ clicks = 0
    /\ lastClick = [kind |-> "none", node |-> << >>, from |-> << >>]

ResolveIdle ==
    /\ rOpts = << >>
    /\ rIdx = -1
    /\ rOut = Undef

\* the state once the mount effect (lines 261-263) has run processRawData on the
\* built-in table, here any table of Tables
Init ==
    /\ \E t \in Tables :
          /\ data = processRawData(t)
          /\ maturityHeaders = detectedMaturityHeaders(t.columns)
    /\ pasteModalOpen = FALSE
    /\ pasteText = NoText
    /\ errorMsg = ""
    /\ lastOp = Op("mount", 0, -1, -1, Undef)
    /\ edits = 0
    /\ ChartIdle
    /\ ResolveIdle

Next ==
    /\ UNCHANGED <<chartVars, resolveVars>>
    /\ \/ \E r \in 1..MaxRows, m \in 0..(MaxOpts - 1) : handleMaturityClick(r, m)
       \/ \E r \in 1..MaxRows, v \in WeightTexts : handleWeightChange(r, v)
       \/ \E r \in 1..MaxRows, v \in CidTexts : handleCidChange(r, v)
       \/ \E r \in 1..MaxRows, v \in NameTexts : handleCriterionChange(r, v)
       \/ addRow
       \/ \E r \in 1..MaxRows : deleteRow(r)
       \/ togglePasteModal
       \/ cancelPaste
       \/ \E t \in PasteTexts : setPasteText(t)
       \/ handlePaste
       \/ \E f \in JsonFiles : loadJson(f)

Spec == Init /\ [][Next]_vars

\* the App after a CSV/TSV import, under maturity clicks, weight edits, row
\* additions and deletions only
NextCsv ==
    /\ UNCHANGED <<chartVars, resolveVars>>
    /\ \/ \E r \in 1..MaxRows, m \in 0..(MaxOpts - 1) : handleMaturityClick(r, m)
       \/ \E r \in 1..MaxRows, v \in WeightTexts : handleWeightChange(r, v)
       \/ addRow
       \/ \E r \in 1..MaxRows : deleteRow(r)

SpecCsv == Init /\ [][NextCsv]_vars

\* ------------------------------------------------------------ SunburstChart: hierarchy and layout
\* A node of d3.hierarchy(rootData) is the path of child positions that leads to it
\* from the root (<< >>), positions counted in the order of the children arrays that
\* lines 78-90 fill.  Data nodes are named by the row that created them; 0 is rootData.

Front(path) == SubSeq(path, 1, Len(path) - 1)
Last(path) == path[Len(path)]

\* line 79: nodeMap[d.CID], the node made from the last row with that CID
chartNode(rows, i) == NodeMap(rows, rows[i].CID)

\* lines 78-90: the children array of data node p (rootData for p = 0), in push order
chartChildren(rows, p) ==
    LET pushed == SelectSeq([i \in Indices(rows) |-> i], LAMBDA i : ParentOf(rows, i) = p)
    IN [k \in Indices(pushed) |-> chartNode(rows, pushed[k])]

\* lines 63-90: rootData and nodeMap once both passes have run: the children array
\* and the weight of every data node
ChartTree(rows) ==
    [kids |-> [p \in 0..Len(rows) |-> chartChildren(rows, p)],
     weight |-> [p \in Indices(rows) |-> rows[p].W]]

RECURSIVE DataOf(_, _)
\* node.data of the hierarchy node at path
DataOf(tree, path) ==
    IF path = <<>> THEN 0
    ELSE tree.kids[DataOf(tree, Front(path))][Last(path)]

Kids(tree, path) == tree.kids[DataOf(tree, path)]

RECURSIVE Descendants(_, _)
\* node.descendants(), as paths
Descendants(tree, path) ==
    {path} \cup UNION {Descendants(tree, Append(path, k)) : k \in Indices(Kids(tree, path))}

\* line 98: node.data.weight || 0
weightOf(tree, path) == tree.weight[DataOf(tree, path)]

RECURSIVE absoluteWeight(_, _)
\* lines 95-100
absoluteWeight(tree, path) ==
    IF path = <<>> THEN One
    ELSE RMul(absoluteWeight(tree, Front(path)), weightOf(tree, path))

\* an accessor that also counts the weight of nodes that have children
OwnValueCounted(tree, path) == absoluteWeight(tree, path)

\* line 102: the accessor d => (d.children && d.children.length) ? 0 : d.absoluteWeight
OwnValue(tree, path) ==
    IF Kids(tree, path) # <<>> THEN Zero ELSE absoluteWeight(tree, path)

RECURSIVE Value(_, _)
RECURSIVE SumValues(_, _, _)
\* the sum of the values of the children of path at the positions ks
SumValues(tree, path, ks) ==
    IF ks = <<>> THEN Zero
    ELSE RAdd(Value(tree, Append(path, Head(ks))), SumValues(tree, path, Tail(ks)))

\* line 102, hierarchy.sum: the node's own value plus its children's values
Value(tree, path) ==
    RAdd(OwnValue(tree, path),
         SumValues(tree, path, [k \in Indices(Kids(tree, path)) |-> k]))

\* node.value of every node once line 102 has run
Values(tree) == [path \in Descendants(tree, <<>>) |-> Value(tree, path)]

\* a comparator a.value - b.value: ascending order of value
BeforeAscending(va, vb) == RLess(va, vb)

\* line 103: the comparator b.value - a.value says a goes before b
Before(va, vb) == RLess(vb, va)

\* line 103: the siblings the stable sort places before child k of path
Earlier(tree, value, path, k) ==
    {j \in Indices(Kids(tree, path)) :
        \/ Before(value[Append(path, j)], value[Append(path, k)])
        \/ /\ ~Before(value[Append(path, k)], value[Append(path, j)])
           /\ j < k}

\* line 103: place of child k among its siblings after the sort
SortedPlace(tree, value, path, k) == 1 + Cardinality(Earlier(tree, value, path, k))

\* node.children after line 103: the child positions in sorted order
SortedKids(tree, value, path) ==
    [n \in Indices(Kids(tree, path)) |->
        CHOOSE k \in Indices(Kids(tree, path)) : SortedPlace(tree, value, path, k) = n]

RECURSIVE SumOver(_, _, _)
\* the sum of value[Append(path, j)] over the positions j of the set S
SumOver(value, path, S) ==
    IF S = {} THEN Zero
    ELSE LET j == CHOOSE x \in S : TRUE
         IN RAdd(value[Append(path, j)], SumOver(value, path, S \ {j}))

\* d3 treemapDice: k = parent.value && (x1 - x0) / parent.value
DiceK(value, x0, x1) ==
    IF value = Zero THEN Zero ELSE RDiv(RSub(x1, x0), value)

\* d3 treemapDice, one child: node.x0 = x0, node.x1 = x0 += node.value * k, where
\* `before` is the sum of the values of the siblings placed earlier
DiceChild(parentSpan, k, before, value) ==
    <<RAdd(parentSpan[1], RMul(before, k)),
      RAdd(parentSpan[1], RMul(RAdd(before, value), k))>>

RECURSIVE Span(_, _, _)
\* line 123, d3.partition: <<x0, x1>> of the node at path
Span(tree, value, path) ==
    IF path = <<>> THEN <<Zero, One>>
    ELSE LET parentSpan == Span(tree, value, Front(path))
         IN DiceChild(parentSpan,
                      DiceK(value[Front(path)], parentSpan[1], parentSpan[2]),
                      SumOver(value, Front(path),
                              Earlier(tree, value, Front(path), Last(path))),
                      value[path])

\* root.height
Height(tree) == SeqMax({Len(path) : path \in Descendants(tree, <<>>)})

\* d3.partition: y0 = depth / (height + 1), y1 = (depth + 1) / (height + 1)
Band(height, path) ==
    <<Rat(Len(path), height + 1), Rat(Len(path) + 1, height + 1)>>

\* line 123: the nodes partition(hierarchy) returns, path -> node, for the tree of
\* lines 63-90, the values of line 102 and the height of the hierarchy
PartitionOf(tree, value, height) ==
    [path \in DOMAIN value |->
        LET span == Span(tree, value, path)
            band == Band(height, path)
        IN [data |-> DataOf(tree, path),
            value |-> value[path],
            children |-> [n \in Indices(Kids(tree, path)) |->
                             Append(path, SortedKids(tree, value, path)[n])],
            x0 |-> span[1], x1 |-> span[2],
            y0 |-> band[1], y1 |-> band[2]]]

\* lines 63-123: the laid-out hierarchy of a row list (the tree is built once)
Partition(rows) ==
    CHOOSE root \in {PartitionOf(tree, Values(tree), Height(tree)) :
                        tree \in {ChartTree(rows)}} : TRUE

\* lines 54-123: the effect, for a non-empty row list
RenderChart ==
    /\ layout = << >>
    /\ data # << >>
    /\ layout' = Partition(data)
    /\ UNCHANGED <<focus, schedules, xDomain, yDomain, yRange, nextId, clicks, lastClick>>

SortedById(rows) ==
    \A i, j \in Indices(rows) : i < j => naturalSort(rows[i], rows[j]) <= 0

\* the row lists the chart is given: rows of these ids and weights in id order,
\* as calculateHierarchyScores leaves them
ChartCids == {<<1>>, <<2>>, <<1, 1>>, <<1, 2>>, <<1, 1, 1>>}
ChartWeights == {Zero, Half, One}
ChartRows == {Row(cid, "c", w, Zero, << >>) : cid \in ChartCids, w \in ChartWeights}

RowLists(n) ==
    {rows \in UNION {[1..m -> ChartRows] : m \in 1..n} : SortedById(rows)}

InitLayout ==
    /\ data \in RowLists(MaxRows)
    /\ maturityHeaders = << >>
    /\ pasteModalOpen = FALSE
    /\ pasteText = NoText
    /\ errorMsg = ""
    /\ lastOp = Op("mount", 0, -1, -1, Undef)
    /\ edits = 0
    /\ ChartIdle
    /\ ResolveIdle

NextLayout ==
    /\ UNCHANGED <<appVars, resolveVars>>
    /\ RenderChart

SpecLayout == InitLayout /\ [][NextLayout]_vars

\* ------------------------------------------------------------ SunburstChart: click and zoom

\* a click with the test of p.children inverted
clickTargetInverted(p) ==
    IF layout[p].children = <<>> THEN p
    ELSE IF p # <<>> THEN Front(p) ELSE <<>>

\* a click that always zooms into the clicked node
clickTargetSelf(p) == p

\* line 200: p.children ? p : p.parent || root
clickTarget(p) ==
    IF layout[p].children # <<>> THEN p
    ELSE IF p # <<>> THEN Front(p) ELSE <<>>

\* a center text that hands the parent of the current focus to click
centerNodeParent == IF focus = <<>> THEN <<>> ELSE Front(focus)

\* line 176: the node the center text hands to click
centerNode == <<>>

\* lines 203-205: the ends of the three interpolators for a target
TargetX(target) == <<layout[target].x0, layout[target].x1>>
TargetY(target) == <<layout[target].y0, One>>
TargetR(target) ==
    <<IF layout[target].y0 # Zero THEN <<Inset, 1>> ELSE Zero, <<Radius, 1>>>>

\* d3.interpolate of two pairs, sampled at frame k of Frames
Interp(from, to, k) ==
    [c \in 1..2 |-> RAdd(from[c], RMul(RSub(to[c], from[c]), Rat(k, Frames)))]

NoPair == <<Zero, Zero>>

\* lines 199-216: click(event, p); svg.transition() puts a new transition on the svg
\* element, its tween is initialised when it starts
click(kind, p) ==
    /\ layout # << >>
    /\ clicks < MaxClicks
    /\ focus' = clickTarget(p)
    /\ schedules' = schedules \cup
          {[id |-> nextId, state |-> "scheduled", target |-> clickTarget(p),
            xd |-> NoPair, yd |-> NoPair, yr |-> NoPair, frame |-> 0]}
    /\ nextId' = nextId + 1
    /\ clicks' = clicks + 1
    /\ lastClick' = [kind |-> kind, node |-> p, from |-> focus]
    /\ UNCHANGED <<layout, xDomain, yDomain, yRange>>

\* line 197: a click on the path of a node of depth > 0
pathClick(p) ==
    /\ layout # << >>
    /\ p \in DOMAIN layout \ {<<>>}
    /\ click("path", p)

\* line 176: a click on the center text
centerClick == click("center", centerNode)

\* a start that cancels the older pending transitions and lets the running one run
PreemptsPendingOnly(o, id) == o.state # "running" /\ o.id < id

\* d3 schedule.start: the transitions of the element that a starting transition
\* ends: the running one is interrupted, those created before it are cancelled
Preempts(o, id) == o.state = "running" \/ o.id < id

\* d3 schedule.start for transition s; it waits while another one has started and
\* not ticked yet.  The tween factory of lines 202-206 runs here and reads the
\* current domains and range.
startTransition(s) ==
    /\ s \in schedules
    /\ s.state = "scheduled"
    /\ \A o \in schedules : o.state # "started"
    /\ schedules' = {o \in schedules : o # s /\ ~Preempts(o, s.id)} \cup
          {[s EXCEPT !.state = "started", !.xd = xDomain, !.yd = yDomain, !.yr = yRange]}
    /\ UNCHANGED <<layout, focus, xDomain, yDomain, yRange, nextId, clicks, lastClick>>

\* lines 207-210: the tween at frame k of transition s
applyTween(s, k) ==
    /\ xDomain' = Interp(s.xd, TargetX(s.target), k)
    /\ yDomain' = Interp(s.yd, TargetY(s.target), k)
    /\ yRange' = Interp(s.yr, TargetR(s.target), k)

\* d3 schedule.tick for transition s: the first tick makes it running, the last
\* one (t = 1) ends it
tickTransition(s) ==
    /\ s \in schedules
    /\ \/ /\ s.state = "started"
          /\ applyTween(s, 0)
          /\ schedules' = (schedules \ {s}) \cup {[s EXCEPT !.state = "running"]}
       \/ /\ s.state = "running"
          /\ applyTween(s, s.frame + 1)
          /\ schedules' = (schedules \ {s}) \cup
                (IF s.frame + 1 = Frames THEN {} ELSE {[s EXCEPT !.frame = s.frame + 1]})
    /\ UNCHANGED <<layout, focus, nextId, clicks, lastClick>>

\* the row lists whose chart is zoomed: these ids in id order, weights 1/2 or 1
ZoomShapes ==
    {<< <<1>>, <<1, 1>>, <<2>> >>,
     << <<1>>, <<1, 1>>, <<1, 2>> >>,
     << <<1>>, <<1, 1>>, <<1, 1, 1>> >>,
     << <<1>>, <<1>>, <<1, 1>> >>,
     << <<1>>, <<2>> >>}

ZoomRowLists ==
    {rows \in UNION {[1..m -> ChartRows] : m \in 2..3} :
        /\ [i \in Indices(rows) |-> rows[i].CID] \in ZoomShapes
        /\ \A i \in Indices(rows) : rows[i].W # Zero}

InitZoom ==
    /\ data \in ZoomRowLists
    /\ maturityHeaders = << >>
    /\ pasteModalOpen = FALSE
    /\ pasteText = NoText
    /\ errorMsg = ""
    /\ lastOp = Op("mount", 0, -1, -1, Undef)
    /\ edits = 0
    /\ ChartIdle
    /\ ResolveIdle

NextZoom ==
    /\ UNCHANGED <<appVars, resolveVars>>
    /\ \/ RenderChart
       \/ \E p \in DOMAIN layout : pathClick(p)
       \/ centerClick
       \/ \E s \in schedules : startTransition(s)
       \/ \E s \in schedules : tickTransition(s)

SpecZoom == InitZoom /\ [][NextZoom]_vars

\* ------------------------------------------------------------ the resolver on its own

OptionTexts == {"", " ", "no", " NO ", "A", "B"}

OptionLists == UNION {[1..n -> OptionTexts] : n \in 1..MaxOpts}

InitResolve ==
    /\ data = << >>
    /\ maturityHeaders = << >>
    /\ pasteModalOpen = FALSE
    /\ pasteText = NoText
    /\ errorMsg = ""
    /\ lastOp = Op("mount", 0, -1, -1, Undef)
    /\ edits = 0
    /\ ChartIdle
    /\ rOpts \in OptionLists
    /\ rIdx = -1
    /\ rOut = Undef

\* lines 353-376 for a click on maturityIndex of a row with the maturities rOpts
resolve(maturityIndex) ==
    /\ maturityIndex \in 0..(Len(rOpts) - 1)
    /\ rIdx' = maturityIndex
    /\ rOut' = newScore(rOpts, maturityIndex, rOpts[maturityIndex + 1])
    /\ UNCHANGED rOpts

NextResolve ==
    /\ UNCHANGED <<appVars, chartVars>>
    /\ \E m \in 0..(MaxOpts - 1) : resolve(m)

SpecResolve == InitResolve /\ [][NextResolve]_vars

\* ------------------------------------------------------------ claims about the App

RECURSIVE SumSeq(_, _, _)
\* the sum of F(s[k]) over the sequence s, from acc
SumSeq(s, F(_), acc) ==
    IF s = <<>> THEN acc ELSE SumSeq(Tail(s), F, RAdd(acc, F(Head(s))))

\* the children of row p that carry a number as their score
ScoredChildren(rows, p) ==
    SelectSeq(rows[p].children, LAMBDA c : IsNum(rows[c].Score))

WeightedSumOf(rows, p) ==
    SumSeq(ScoredChildren(rows, p), LAMBDA c : RMul(rows[c].Score, rows[c].W), Zero)

WeightTotalOf(rows, p) ==
    SumSeq(ScoredChildren(rows, p), LAMBDA c : rows[c].W, Zero)

\* the handlers that end in setData(calculateHierarchyScores(...))
Rebuilt ==
    lastOp.op \in {"mount", "maturity", "weight", "delete", "paste", "load", "loadOther"}

\* C1: after calculateHierarchyScores, a row with a scored child and a positive
\* total weight of scored children has Score = weightedSum / weightTotal, both
\* sums over the scored children only.
C1_WeightedAverage ==
    Rebuilt =>
        \A p \in Indices(data) :
            (ScoredChildren(data, p) # <<>> /\ RLess(Zero, WeightTotalOf(data, p)))
                => data[p].Score = RDiv(WeightedSumOf(data, p), WeightTotalOf(data, p))

\* the case of C1's example: one scored child (weight 1/2, score 1) and one unscored
C1_ExampleReached ==
    /\ Rebuilt
    /\ \E p \in Indices(data) :
          /\ Len(data[p].children) = 2
          /\ \E a, b \in 1..2 :
                /\ data[data[p].children[a]].Score = One
                /\ data[data[p].children[a]].W = Half
                /\ data[data[p].children[b]].Score = Undef
                /\ data[data[p].children[b]].W = Half

UniqueIds(rows) ==
    \A i, j \in Indices(rows) : rows[i].CID = rows[j].CID => i = j

\* the rows whose id without its last segment is the id of row p
ChildrenById(rows, p) ==
    {j \in Indices(rows) : HasDot(rows[j].CID) /\ ParentCid(rows[j].CID) = rows[p].CID}

FreshTree(rows) ==
    /\ \A p \in Indices(rows) :
          /\ {rows[p].children[k] : k \in Indices(rows[p].children)} = ChildrenById(rows, p)
          /\ rows[p].children # <<>> =>
                rows[p].Score = NodeScore(WeightedSumOf(rows, p), WeightTotalOf(rows, p))
    /\ SortedById(rows)

\* C4: after every structural edit (add row, delete row, weight change, CID change,
\* paste import) the row list is a freshly rebuilt tree: children by id, parents
\* carrying the rollup, sorted by id.  (Stated for lists of unique ids.)
C4_RebuiltAfterStructuralEdit ==
    (lastOp.op \in {"add", "delete", "weight", "cid", "paste"} /\ UniqueIds(data))
        => FreshTree(data)

\* C5: a maturity click on the selected index clears the selection and the score;
\* a click on another index selects it and stores the resolver's result.
C5_Toggle ==
    lastOp.op = "maturity" =>
        LET row == data[lastOp.row] IN
        IF lastOp.was = lastOp.idx
        THEN row.sel = -1 /\ row.Score = Undef
        ELSE row.sel = lastOp.idx /\ row.Score = lastOp.res

\* C5 on the rows that are leaves of the rebuilt tree
C5_ToggleOfLeaf ==
    (lastOp.op = "maturity" /\ data[lastOp.row].children = <<>>) =>
        LET row == data[lastOp.row] IN
        IF lastOp.was = lastOp.idx
        THEN row.sel = -1 /\ row.Score = Undef
        ELSE row.sel = lastOp.idx /\ row.Score = lastOp.res

\* C7: an import that cannot be processed leaves the row list and the headers as
\* they were, and leaves an error message on display.
C7_FailedImportIsNoOp ==
    [][lastOp'.op \in {"pasteFailed", "loadFailed", "loadOther"} /\ edits' = edits + 1
        => /\ data' = data
           /\ maturityHeaders' = maturityHeaders
           /\ errorMsg' # ""]_vars

\* ------------------------------------------------------------ claims about the resolver

IsNo(m) == TrimLower(m) = "no"
IsValid(m) == TrimLower(m) # "" /\ TrimLower(m) # "no"
ValidAt(opts) == {i \in 0..(Len(opts) - 1) : IsValid(opts[i + 1])}

\* C6: the score of a click is 0 on a "no" option, else rank / validCount (0 when
\* there is no valid option); it lies in [0, 1], does not decrease with the clicked
\* index among the options that are not "no", and is 1 on the last valid option.
C6_RankOverValidCount ==
    rIdx >= 0 =>
        LET validCount == Cardinality(ValidAt(rOpts))
            rankOf == Cardinality({i \in ValidAt(rOpts) : i <= rIdx})
        IN /\ IsNo(rOpts[rIdx + 1]) => rOut = Zero
           /\ (~IsNo(rOpts[rIdx + 1]) /\ validCount = 0) => rOut = Zero
           /\ (~IsNo(rOpts[rIdx + 1]) /\ validCount > 0) =>
                 rOut[1] * validCount = rankOf * rOut[2]
           /\ IsNum(rOut) /\ RLeq(Zero, rOut) /\ RLeq(rOut, One)
           /\ \A j \in 0..rIdx :
                 (~IsNo(rOpts[j + 1]) /\ ~IsNo(rOpts[rIdx + 1]))
                    => RLeq(newScore(rOpts, j, rOpts[j + 1]), rOut)
           /\ (rIdx \in ValidAt(rOpts) /\ \A i \in ValidAt(rOpts) : i <= rIdx)
                 => rOut = One

\* a click on the first of two valid options that follow a "no"
C6_Witness ==
    /\ rIdx = 1
    /\ IsNo(rOpts[1])
    /\ Cardinality(ValidAt(rOpts)) = 2
    /\ rOut = Half

\* ------------------------------------------------------------ claims about the zoom

\* the nodes of the rendered tree and their links, read off the laid-out hierarchy
HasChildren(N) == \E q \in DOMAIN layout : q # <<>> /\ Front(q) = N
ParentOrRoot(N) == IF N = <<>> THEN <<>> ELSE Front(N)

\* C2: activating node N by a click on its path, whatever the focus was, sets the
\* focus to N when N has children and to N's parent (the root when N is a top-level
\* node) when N has none.
C2_ZoomActivation ==
    lastClick.kind = "path" =>
        focus = IF HasChildren(lastClick.node) THEN lastClick.node
                ELSE ParentOrRoot(lastClick.node)

\* a leaf two levels down was clicked while the focus was elsewhere
C2_Witness ==
    /\ lastClick.kind = "path"
    /\ Len(lastClick.node) = 2
    /\ ~HasChildren(lastClick.node)
    /\ lastClick.from # Front(lastClick.node)
    /\ focus = Front(lastClick.node)

\* C3 as stated: a click on the center moves the focus from F to F's parent, and
\* leaves it at the root when F is the root.
C3_CenterOneLevelUp ==
    lastClick.kind = "center" => focus = ParentOrRoot(lastClick.from)

\* C3 amended: a click on the center moves the focus to the root from any focus,
\* so one click reaches the root from any depth.
C3_CenterToRoot ==
    lastClick.kind = "center" => focus = <<>>

\* the center was clicked while the focus was two levels down
C3_Witness ==
    /\ lastClick.kind = "center"
    /\ Len(lastClick.from) = 2
    /\ focus = <<>>

InFlight == {s \in schedules : s.state \in {"started", "running"}}

\* C8: at most one transition interpolates at a time; the one in flight started
\* from the domains that were current when it started and alone decides the
\* domains; once no transition is left the scales rest on the domains of the
\* latest activation's target.
C8_OneTransition ==
    /\ Cardinality(InFlight) <= 1
    /\ \A s \in schedules :
          /\ s.state = "started" => (s.xd = xDomain /\ s.yd = yDomain /\ s.yr = yRange)
          /\ s.state = "running" =>
                /\ xDomain = Interp(s.xd, TargetX(s.target), s.frame)
                /\ yDomain = Interp(s.yd, TargetY(s.target), s.frame)
                /\ yRange = Interp(s.yr, TargetR(s.target), s.frame)
    /\ (schedules = {} /\ clicks > 0) =>
          /\ xDomain = TargetX(focus)
          /\ yDomain = TargetY(focus)
          /\ yRange = TargetR(focus)

\* a transition runs that has superseded another one part of the way: it started
\* from a domain that is no node's
C8_Witness ==
    \E s \in schedules :
        /\ s.state = "running"
        /\ s.frame > 0
        /\ \A p \in DOMAIN layout : s.xd # TargetX(p)

\* ------------------------------------------------------------ claims about the hierarchy and the layout

\* how often row i stands in the children arrays of the rows
Occurrences(rows, i) ==
    Cardinality({<<p, k>> \in Indices(rows) \X Indices(rows) :
                    k <= Len(rows[p].children) /\ rows[p].children[k] = i})

HasParentRow(rows, i) ==
    HasDot(rows[i].CID) /\ \E j \in Indices(rows) : rows[j].CID = ParentCid(rows[i].CID)

\* the aggregator's tree: every row is in the children of exactly one row, whose id
\* is the row's parent id, or in no children array when no row has that id
AggregatorOwnsOnce(rows) ==
    \A i \in Indices(rows) :
        /\ Occurrences(rows, i) = (IF HasParentRow(rows, i) THEN 1 ELSE 0)
        /\ \A p \in Indices(rows) :
              (\E k \in Indices(rows[p].children) : rows[p].children[k] = i)
                 => (HasDot(rows[i].CID) /\ rows[p].CID = ParentCid(rows[i].CID))

\* the chart's tree: every row is the data of exactly one node, placed under the
\* node of its parent id or under the root, and no children array repeats a node
ChartOwnsOnce ==
    /\ \A i \in Indices(data) :
          /\ Cardinality({path \in DOMAIN layout : path # <<>> /\ layout[path].data = i}) = 1
          /\ \A path \in DOMAIN layout :
                (path # <<>> /\ layout[path].data = i) =>
                    IF HasParentRow(data, i)
                    THEN /\ Front(path) # <<>>
                         /\ data[layout[Front(path)].data].CID = ParentCid(data[i].CID)
                    ELSE Front(path) = <<>>
    /\ \A path \in DOMAIN layout :
          \A a, b \in Indices(layout[path].children) :
              layout[layout[path].children[a]].data = layout[layout[path].children[b]].data
                 => a = b

\* C9: in both tree builders every input row appears exactly once: in the children
\* of the one node that carries its parent id, or as a root when no row has that
\* id; no node appears twice in a children list.  Also with duplicate or orphaned ids.
C9_ExclusiveOwnership ==
    layout # << >> =>
        /\ AggregatorOwnsOnce(calculateHierarchyScores(data))
        /\ ChartOwnsOnce

\* the rendered list has two rows of one id
C9_DuplicateRendered ==
    /\ layout # << >>
    /\ ~UniqueIds(data)

Width(path) == RSub(layout[path].x1, layout[path].x0)

RECURSIVE SumWidths(_)
SumWidths(S) ==
    IF S = {} THEN Zero
    ELSE LET q == CHOOSE x \in S : TRUE IN RAdd(Width(q), SumWidths(S \ {q}))

\* the spans of the nodes of S lie in [lo, hi], do not overlap and fill it
Tiles(S, lo, hi) ==
    /\ \A q \in S : RLeq(lo, layout[q].x0) /\ RLeq(layout[q].x0, layout[q].x1)
                    /\ RLeq(layout[q].x1, hi)
    /\ \A a, b \in S :
          a # b => (RLeq(layout[a].x1, layout[b].x0) \/ RLeq(layout[b].x1, layout[a].x0))
    /\ SumWidths(S) = RSub(hi, lo)

TopLevel == {q \in DOMAIN layout : Len(q) = 1}

IsPrefix(p, q) == Len(p) < Len(q) /\ SubSeq(q, 1, Len(p)) = p

LeavesBelow(p) == {q \in DOMAIN layout : IsPrefix(p, q) /\ layout[q].children = <<>>}

Internal == {p \in DOMAIN layout : p # <<>> /\ layout[p].children # <<>>}

InternalIsUnionOfLeaves ==
    \A p \in Internal : Tiles(LeavesBelow(p), layout[p].x0, layout[p].x1)

\* C10 as stated: for every non-empty row list, zero weights included, the spans of
\* the top-level roots are disjoint and fill the circle, and every internal node's
\* span is the union of the spans of the leaves below it.
C10_RootsFillCircle ==
    layout # << >> =>
        /\ Tiles(TopLevel, Zero, One)
        /\ InternalIsUnionOfLeaves

\* C10 amended: every internal node's span is the union of the spans of the leaves
\* below it; the spans of the top-level roots are disjoint and fill the circle when
\* the leaf values sum to more than zero, and when they sum to zero every node has
\* the empty span at angle 0.
C10_RootsFillCircleIfPositive ==
    layout # << >> =>
        /\ InternalIsUnionOfLeaves
        /\ RLess(Zero, layout[<<>>].value) => Tiles(TopLevel, Zero, One)
        /\ layout[<<>>].value = Zero =>
              \A q \in DOMAIN layout \ {<<>>} : layout[q].x0 = Zero /\ layout[q].x1 = Zero

\* a list was laid out in which a node with children has a zero-weight subtree
\* while another root carries weight
C10_Witness ==
    /\ layout # << >>
    /\ RLess(Zero, layout[<<>>].value)
    /\ \E p \in Internal : layout[p].value = Zero /\ LeavesBelow(p) # {}
    /\ \E q \in TopLevel : Width(q) = One

\* the aggregator's builder alone keeps every row exactly once
C9_AggregatorOwnsOnce ==
    layout # << >> => AggregatorOwnsOnce(calculateHierarchyScores(data))

\* ------------------------------------------------------------ claims about sibling order
\* the hierarchy node of the k-th entry of the children array that lines 78-90 filled
ListedChild(path, k) == Append(path, k)

ListedKids(path) == Indices(layout[path].children)

\* C11 as stated: within every parent the children occupy consecutive angular
\* intervals in the order of the parent's children list (id order of the sorted
\* row list), whatever their weights: the first listed child starts where the
\* parent starts and each next listed child starts where the one before it ends.
C11_SiblingOrderPreserved ==
    layout # << >> =>
        \A path \in DOMAIN layout : \A k \in ListedKids(path) :
            layout[ListedChild(path, k)].x0 =
                IF k = 1 THEN layout[path].x0
                ELSE layout[ListedChild(path, k - 1)].x1

\* C11, what the layout does: within every parent the children occupy consecutive
\* angular intervals in descending order of value; children of equal value keep
\* the order of the parent's children list.
C11_SiblingsByDescendingValue ==
    layout # << >> =>
        \A path \in DOMAIN layout :
            LET ch == layout[path].children IN
            /\ \A n \in Indices(ch) :
                   layout[ch[n]].x0 =
                       IF n = 1 THEN layout[path].x0 ELSE layout[ch[n - 1]].x1
            /\ \A n, m \in Indices(ch) :
                   n < m =>
                       /\ RLeq(layout[ch[m]].value, layout[ch[n]].value)
                       /\ layout[ch[m]].value = layout[ch[n]].value
                              => Last(ch[n]) < Last(ch[m])

\* a rendered parent whose children the sort reordered, and a pair of equal-valued
\* children that kept their listed order
C11_Witness ==
    /\ layout # << >>
    /\ \E path \in DOMAIN layout :
           LET ch == layout[path].children IN
           \E n, m \in Indices(ch) :
               /\ n < m
               /\ Last(ch[n]) > Last(ch[m])
               /\ RLess(layout[ch[m]].value, layout[ch[n]].value)
    /\ \E path \in DOMAIN layout :
           LET ch == layout[path].children IN
           \E n, m \in Indices(ch) :
               /\ n < m
               /\ layout[ch[n]].value = layout[ch[m]].value
               /\ RLess(Zero, layout[ch[n]].value)

\* ------------------------------------------------------------ claims about empty rollups
NoScorableChild(rows, p) == ScoredChildren(rows, p) = <<>>

ScoredChildrenWeighZero(rows, p) ==
    \A k \in Indices(ScoredChildren(rows, p)) : rows[ScoredChildren(rows, p)[k]].W = Zero

\* C12: after calculateHierarchyScores, every row that has children but no scorable
\* child, or whose scored children all have weight 0, has Score exactly 0 (a
\* number, never absent).
C12_EmptyRollupIsZero ==
    Rebuilt =>
        \A p \in Indices(data) :
            (data[p].children # <<>>
                /\ (NoScorableChild(data, p) \/ ScoredChildrenWeighZero(data, p)))
                => data[p].Score = Zero

\* a rebuilt list with a parent all of whose children are unscored, and a parent
\* that has a scored child, all its scored children weighing 0
C12_Witness ==
    /\ Rebuilt
    /\ \E p \in Indices(data) :
           /\ data[p].children # <<>>
           /\ NoScorableChild(data, p)
           /\ data[p].Score = Zero
    /\ \E p \in Indices(data) :
           /\ ~NoScorableChild(data, p)
           /\ ScoredChildrenWeighZero(data, p)
           /\ data[p].Score = Zero

\* ------------------------------------------------------------ claims about the focus
IsLeaf(N) == layout[N].children = <<>>

\* C13: the zoom focus is never a leaf: from the synthetic root and after any
\* sequence of path clicks and center clicks on a non-empty tree, the focus is the
\* root or a node with at least one child.
C13_FocusNeverLeaf ==
    layout # << >> =>
        /\ focus \in DOMAIN layout
        /\ focus = <<>> \/ ~IsLeaf(focus)

\* a leaf below the top level was clicked, and the focus is its parent, not the root
C13_Witness ==
    /\ layout # << >>
    /\ lastClick.kind = "path"
    /\ IsLeaf(lastClick.node)
    /\ Len(lastClick.node) >= 2
    /\ focus = Front(lastClick.node)
    /\ focus # <<>>

\* ------------------------------------------------------------ claims about absent scores
Absent(row) == ~IsNum(row.Score)

\* the step is a maturity click that toggled the selection of the row now at i off
ToggledOffNow(i) ==
    /\ edits' = edits + 1
    /\ lastOp'.op = "maturity"
    /\ lastOp'.row = i
    /\ lastOp'.was = lastOp'.idx

\* the row was in the list before the step, its score absent and nothing selected
AbsentBefore(row) ==
    \E j \in Indices(data) :
        /\ Absent(data[j])
        /\ data[j].sel = -1
        /\ data[j].CID = row.CID
        /\ data[j].Criterion = row.Criterion
        /\ data[j].maturities = row.maturities

\* C14: from a CSV/TSV import, under maturity clicks, weight edits, row additions
\* and deletions, a row's score is absent only if the row is a leaf whose most
\* recent maturity click toggled its selection off: the import leaves a number on
\* every row (0 for a blank, malformed or missing score cell), and a score absent
\* after a step was made absent by a toggle-off click of that row in that step, or
\* was absent before on a row that no click has selected since.
C14_AbsentOnlyToggledOffLeaf ==
    /\ \A i \in Indices(data) : ~Absent(data[i])
    /\ [][\A i \in Indices(data') :
            Absent(data'[i]) =>
                /\ data'[i].Score = Undef
                /\ data'[i].children = <<>>
                /\ data'[i].sel = -1
                /\ ToggledOffNow(i) \/ AbsentBefore(data'[i])]_vars

\* a toggled-off leaf whose score is still absent after a later weight edit, row
\* addition or deletion, in a list that still has a row with a number
C14_Witness ==
    /\ lastOp.op \in {"weight", "add", "delete"}
    /\ \E i \in Indices(data) :
           /\ data[i].Score = Undef
           /\ data[i].children = <<>>
           /\ data[i].sel = -1
    /\ \E i \in Indices(data) : data[i].Score = Zero /\ data[i].children = <<>>

====
